---- MODULE Spec2Model ----
(***************************************************************************)
(* Provisioning of the Bedrock agent stack                                 *)
(* (bedrock_agent_implementation/stacks/bedrock_agent_stack.py, app.py)    *)
(* and the chat front end (streamlit_frontend/home.py).                    *)
(*                                                                         *)
(* The stack is a set of resource declarations with dependency edges; the  *)
(* deployment engine issues the create call of a resource once every       *)
(* resource it depends on is complete.  The specifications:                *)
(*                                                                         *)
(*  Spec          the template BedrockAgentStack.__init__ builds.  The     *)
(*                method create_bedrock_agent returns at line 292, after   *)
(*                declaring BedrockAgent and BedrockAgentAlias only.       *)
(*  SpecDeclared  the template of the declarations written at lines        *)
(*                296-757, the statements that follow that return          *)
(*                (knowledge base chain, action groups, prepare, alias).   *)
(*  SpecLive      Spec with the progress the deployment engine and the     *)
(*                managed services guarantee.                              *)
(*  SpecChat      the chat front end (streamlit_frontend/home.py).         *)
(*  SpecSession   session_generator applied to every random draw.          *)
(*  SpecStream    the answer loop of submit_question applied to every      *)
(*                response stream of chunk and trace events.               *)
(*                                                                         *)
(* The file does not import boto3 and ends with except clauses that match  *)
(* no try (lines 759-764).  The model follows the statements of the method *)
(* bodies as they are written and lets check_bedrock_availability either   *)
(* return or raise.                                                        *)
(***************************************************************************)
EXTENDS Naturals, FiniteSets, Sequences, TLC

VARIABLES pc, declared, deps, refs, status, issuedWith, runStatus, runErrors,
          exists, response, runs, frontend

\* the chat front end (streamlit_frontend/home.py): the environment, the
\* position of the script, st.session_state, what the last handler showed,
\* logged, sent to the agent and put to the table
VARIABLES env, app, auth, session_state, handler, shown, logged, invoked,
          lastInvoke, attempts, lastSave, atEntry, queued, last

\* session_generator on its own: the random draws and the pattern returned
VARIABLES draw, pattern, previous

sessionVars == <<draw, pattern, previous>>

chatVars == <<env, app, auth, session_state, handler, shown, logged, invoked,
              lastInvoke, attempts, lastSave, atEntry, queued, last>>

\* the answer loop of submit_question on its own: the response stream and
\* what the loop made of it
VARIABLES results, accumulated

streamVars == <<results, accumulated>>

provisioningVars ==
    <<pc, declared, deps, refs, status, issuedWith, runStatus, runErrors,
      exists, response, runs, frontend>>

vars == <<pc, declared, deps, refs, status, issuedWith, runStatus, runErrors,
          exists, response, runs, frontend, chatVars, sessionVars, streamVars>>

\* number of times the stack is applied (cdk deploy) in one behaviour
MaxRuns == 2

(***************************************************************************)
(* Construct ids                                                           *)
(***************************************************************************)
CustomResourceRole == "CustomResourceRole"
BedrockAgentRole == "BedrockAgentRole"
BedrockAgentLambdaPolicy == "BedrockAgentLambdaPolicy"
BedrockAgentS3Policy == "BedrockAgentS3Policy"
BedrockAgentModelPolicy == "BedrockAgentModelPolicy"
BedrockKbRole == "BedrockKbRole"
NetworkSecurityPolicy == "NetworkSecurityPolicy"
EncryptionSecurityPolicy == "EncryptionSecurityPolicy"
OpssSearchCollection == "OpssSearchCollection"
OpssDataAccessPolicy == "OpssDataAccessPolicy"
OpenSearchIndexLambda == "OpenSearchIndexLambda"
IndexOpenSearch == "IndexOpenSearch"
BedrockKowledgeBase == "BedrockKowledgeBase"
BedrockDataSource == "BedrockDataSource"
BedrockIngestion == "BedrockIngestion"
BedrockAgent == "BedrockAgent"
BedrockAssociateKb == "BedrockAssociateKb"
DeviceMetricsLambda == "DeviceMetricsLambda"
DeviceMetricsPermission == "DeviceMetricsLambda/AllowBedrockAgent"
DeviceActionLambda == "DeviceActionLambda"
DeviceActionPermission == "DeviceActionLambda/AllowBedrockAgent"
BedrockAgentActionGroup1 == "BedrockAgentActionGroup1"
BedrockAgentActionGroup2 == "BedrockAgentActionGroup2"
BedrockPrepareAgent == "BedrockPrepareAgent"
BedrockAgentAlias == "BedrockAgentAlias"

\* attach_bedrock_agent_policies: the three inline policies of the agent role
AgentPolicies ==
    {BedrockAgentLambdaPolicy, BedrockAgentS3Policy, BedrockAgentModelPolicy}

\* the custom resources: each issues one remote create call (on_create / on_event)
Calls ==
    {IndexOpenSearch, BedrockKowledgeBase, BedrockDataSource, BedrockIngestion,
     BedrockAgent, BedrockAssociateKb, BedrockAgentActionGroup1,
     BedrockAgentActionGroup2, BedrockPrepareAgent, BedrockAgentAlias}

\* resources the engine creates itself (roles, policies, functions, collection)
Natives ==
    {CustomResourceRole, BedrockAgentRole, BedrockKbRole, NetworkSecurityPolicy,
     EncryptionSecurityPolicy, OpssSearchCollection, OpssDataAccessPolicy,
     OpenSearchIndexLambda, DeviceMetricsLambda, DeviceMetricsPermission,
     DeviceActionLambda, DeviceActionPermission} \cup AgentPolicies

Resources == Calls \cup Natives

(***************************************************************************)
(* The template create_bedrock_agent returns (lines 244-292)               *)
(***************************************************************************)
\* constructs declared by the method before its return statement
ReturnedResources == {BedrockAgent, BedrockAgentAlias}

\* tokens in the parameters of a call: role=, role_arn, get_response_field
ReturnedRefs(r) ==
    CASE r = BedrockAgent -> {CustomResourceRole, BedrockAgentRole}
      [] r = BedrockAgentAlias -> {CustomResourceRole, BedrockAgent}
      [] OTHER -> {}

ReturnedAddDependency_Prepare(r) ==
    IF r = BedrockAgentAlias THEN {BedrockPrepareAgent} ELSE {}

\* node.add_dependency calls made before the return: none
ReturnedAddDependency(r) == {}

ReturnedDependsOn(r) == ReturnedRefs(r) \cup ReturnedAddDependency(r)

\* a policy attached to a role references the role
PolicyDependsOn(r) == IF r \in AgentPolicies THEN {BedrockAgentRole} ELSE {}

(***************************************************************************)
(* The template of the declarations at lines 296-757                       *)
(***************************************************************************)
DeclaredResources == Resources

\* tokens in the properties of a resource (implicit dependencies)
DeclaredRefs(r) ==
    CASE r \in AgentPolicies -> {BedrockAgentRole}
      [] r = OpssDataAccessPolicy ->
            {CustomResourceRole, BedrockAgentRole, BedrockKbRole}
      [] r = OpenSearchIndexLambda -> {CustomResourceRole}
      [] r = IndexOpenSearch -> {OpenSearchIndexLambda, OpssSearchCollection}
      [] r = BedrockKowledgeBase ->
            {CustomResourceRole, BedrockKbRole, OpssSearchCollection}
      [] r = BedrockDataSource -> {CustomResourceRole, BedrockKowledgeBase}
      [] r = BedrockIngestion ->
            {CustomResourceRole, BedrockKowledgeBase, BedrockDataSource}
      [] r = BedrockAgent -> {CustomResourceRole, BedrockAgentRole}
      [] r = BedrockAssociateKb ->
            {CustomResourceRole, BedrockAgent, BedrockKowledgeBase}
      [] r = DeviceMetricsPermission -> {DeviceMetricsLambda, BedrockAgent}
      [] r = DeviceActionPermission -> {DeviceActionLambda, BedrockAgent}
      [] r = BedrockAgentActionGroup1 ->
            {CustomResourceRole, BedrockAgent, DeviceMetricsLambda}
      [] r = BedrockAgentActionGroup2 ->
            {CustomResourceRole, BedrockAgent, DeviceActionLambda}
      [] r = BedrockPrepareAgent -> {CustomResourceRole, BedrockAgent}
      [] r = BedrockAgentAlias -> {CustomResourceRole, BedrockAgent}
      [] OTHER -> {}

\* add_dependency / node.add_dependency calls; a dependency on a function
\* construct covers the permission declared inside it
\* (lines 570-572 name the three policies of attach_bedrock_agent_policies)
DeclaredAddDependency(r) ==
    CASE r = OpssSearchCollection ->
            {NetworkSecurityPolicy, EncryptionSecurityPolicy}
      [] r = OpssDataAccessPolicy -> {OpssSearchCollection}
      [] r = IndexOpenSearch -> {OpssDataAccessPolicy}
      [] r = BedrockKowledgeBase -> {IndexOpenSearch, BedrockKbRole}
      [] r = BedrockDataSource -> {BedrockKowledgeBase}
      [] r = BedrockIngestion -> {BedrockDataSource}
      [] r = BedrockAgent ->
            {BedrockAgentRole, BedrockKowledgeBase} \cup AgentPolicies
      [] r = BedrockAssociateKb -> {BedrockDataSource, BedrockAgent}
      [] r = BedrockAgentActionGroup1 ->
            {BedrockAssociateKb, DeviceMetricsLambda, DeviceMetricsPermission}
      [] r = BedrockAgentActionGroup2 ->
            {BedrockAssociateKb, DeviceActionLambda, DeviceActionPermission}
      [] r = BedrockPrepareAgent ->
            {BedrockAgentActionGroup1, BedrockAgentActionGroup2}
      [] r = BedrockAgentAlias -> {BedrockPrepareAgent}
      [] OTHER -> {}

\* line 685/715 left out and the function ARN given as a plain string
DeclaredDependsOn_NoFunction(r) ==
    IF r \in {BedrockAgentActionGroup1, BedrockAgentActionGroup2}
    THEN (DeclaredRefs(r) \cup DeclaredAddDependency(r))
            \ {DeviceMetricsLambda, DeviceMetricsPermission,
               DeviceActionLambda, DeviceActionPermission}
    ELSE DeclaredRefs(r) \cup DeclaredAddDependency(r)

\* line 491, kb_res.node.add_dependency(index_res), left out
DeclaredDependsOn_NoIndex(r) ==
    IF r = BedrockKowledgeBase
    THEN DeclaredRefs(r) \cup (DeclaredAddDependency(r) \ {IndexOpenSearch})
    ELSE DeclaredRefs(r) \cup DeclaredAddDependency(r)

\* line 595, associate_agent_res.node.add_dependency(data_source_res), left out
DeclaredDependsOn_NoDataSource(r) ==
    IF r = BedrockAssociateKb
    THEN DeclaredRefs(r) \cup (DeclaredAddDependency(r) \ {BedrockDataSource})
    ELSE DeclaredRefs(r) \cup DeclaredAddDependency(r)

\* lines 733-734, prepare_agent_res.node.add_dependency(action groups), left out
DeclaredDependsOn_NoActionGroups(r) ==
    IF r = BedrockPrepareAgent
    THEN DeclaredRefs(r) \cup (DeclaredAddDependency(r)
            \ {BedrockAgentActionGroup1, BedrockAgentActionGroup2})
    ELSE DeclaredRefs(r) \cup DeclaredAddDependency(r)

DeclaredDependsOn(r) == DeclaredRefs(r) \cup DeclaredAddDependency(r)

(***************************************************************************)
(* Service side                                                            *)
(***************************************************************************)
\* calls that create an entity under a fixed name (VECTOR_INDEX_NAME,
\* KNOWLEDGE_BASE_NAME, BEDROCK_AGENT_NAME): the service refuses a second one
Named == {IndexOpenSearch, BedrockKowledgeBase, BedrockAgent}

\* error codes an AwsSdkCall ignores: ignore_error_codes_matching is passed
\* to none of the calls
IgnoresAlreadyExists(r) == FALSE

\* the index handler (custom_resource/aoss index.on_event) accepts an index
\* that is already there
IndexTolerates(r) == r = IndexOpenSearch

Tolerates(r) == IgnoresAlreadyExists(r) \/ IndexTolerates(r)

Pending == [r \in Resources |-> "pending"]
NoneIssued == [r \in Resources |-> {}]
NoResponse == [r \in Resources |-> "none"]
NoFrontend == [deployed |-> FALSE, bedrock_agent_id |-> FALSE,
               bedrock_agent_alias |-> FALSE]

InFlight == {r \in declared : status[r] = "in_progress"}
Completed == {r \in declared : status[r] = "complete"}

(***************************************************************************)
(* Chat front end before the script has run                                *)
(***************************************************************************)
\* None where a text or an id is expected; a text is the sequence of its pieces
None == <<>>

NoInvoke == [sessionId |-> None, inputText |-> <<>>]
NoItem == [username |-> None, session_id |-> None, conversation |-> <<>>,
           feedback |-> {}, hasFeedback |-> FALSE]
NoHandler ==
    [op |-> "none", invoke |-> "none", completion |-> <<>>,
     put_item |-> "none"]
NoDraw == [digits |-> <<>>, chars |-> <<>>]

\* environment in which every configuration value is present
FullEnv == [BEDROCK_AGENT_ID |-> TRUE, BEDROCK_AGENT_ALIAS |-> TRUE,
            table_name |-> TRUE, config_yaml |-> TRUE, authenticator |-> TRUE]

\* home.py lines 107-119: the session state a new session gets
NewSessionState ==
    [conversation |-> <<>>, session_id |-> None, user_input |-> <<>>,
     processing |-> FALSE, feedback |-> {}]

ChatNotStarted ==
    /\ app = "startup"
    /\ auth = "None"
    /\ session_state = NewSessionState
    /\ handler = "idle"
    /\ shown = {}
    /\ logged = {}
    /\ invoked = FALSE
    /\ lastInvoke = NoInvoke
    /\ attempts = 0
    /\ lastSave = NoItem
    /\ atEntry = NewSessionState
    /\ queued = 0
    /\ last = NoHandler

ChatUnused == env = FullEnv /\ ChatNotStarted

SessionUnused == draw = NoDraw /\ pattern = <<>> /\ previous = <<>>

NotAccumulated == [raised |-> FALSE, answer |-> <<"not run">>]

StreamUnused == results = <<>> /\ accumulated = NotAccumulated

(***************************************************************************)
(* BedrockAgentStack.__init__ (lines 49-66) and app.py                     *)
(***************************************************************************)
NotSynthesised ==
    /\ pc = "check_bedrock_availability"
    /\ declared = {}
    /\ deps = NoneIssued
    /\ refs = NoneIssued
    /\ status = Pending
    /\ issuedWith = NoneIssued
    /\ runStatus = "synth"
    /\ runErrors = {}
    /\ exists = {}
    /\ response = NoResponse
    /\ runs = 0
    /\ frontend = NoFrontend

Init == NotSynthesised /\ ChatUnused /\ SessionUnused /\ StreamUnused

Declare(rs, dependsOn, references) ==
    /\ declared' = declared \cup rs
    /\ deps' = [r \in Resources |-> IF r \in rs THEN dependsOn[r] ELSE deps[r]]
    /\ refs' = [r \in Resources |-> IF r \in rs THEN references[r] ELSE refs[r]]

\* line 56: list_foundation_models returns, or raises and __init__ re-raises
check_bedrock_availability ==
    /\ pc = "check_bedrock_availability"
    /\ \E ok \in BOOLEAN :
          IF ok
          THEN /\ pc' = "create_custom_resource_role"
               /\ UNCHANGED <<runStatus, runErrors>>
          ELSE /\ pc' = "raised"
               /\ runStatus' = "failed"
               /\ runErrors' = {"check_bedrock_availability"}
    /\ UNCHANGED <<declared, deps, refs, status, issuedWith, exists, response,
                   runs, frontend>>
    /\ UNCHANGED <<chatVars, sessionVars, streamVars>>

\* line 57
create_custom_resource_role ==
    /\ pc = "create_custom_resource_role"
    /\ Declare({CustomResourceRole}, NoneIssued, NoneIssued)
    /\ pc' = "create_bedrock_agent_role"
    /\ UNCHANGED <<status, issuedWith, runStatus, runErrors, exists, response,
                   runs, frontend>>
    /\ UNCHANGED <<chatVars, sessionVars, streamVars>>

\* line 58: the role and its three inline policies
create_bedrock_agent_role ==
    /\ pc = "create_bedrock_agent_role"
    /\ Declare({BedrockAgentRole} \cup AgentPolicies,
               [r \in Resources |-> PolicyDependsOn(r)],
               [r \in Resources |-> PolicyDependsOn(r)])
    /\ pc' = "create_bedrock_kb_role"
    /\ UNCHANGED <<status, issuedWith, runStatus, runErrors, exists, response,
                   runs, frontend>>
    /\ UNCHANGED <<chatVars, sessionVars, streamVars>>

\* line 59
create_bedrock_kb_role ==
    /\ pc = "create_bedrock_kb_role"
    /\ Declare({BedrockKbRole}, NoneIssued, NoneIssued)
    /\ pc' = "create_bedrock_agent"
    /\ UNCHANGED <<status, issuedWith, runStatus, runErrors, exists, response,
                   runs, frontend>>
    /\ UNCHANGED <<chatVars, sessionVars, streamVars>>

\* lines 60-62: create_bedrock_agent declares the agent and the alias and
\* returns the two response tokens
create_bedrock_agent ==
    /\ pc = "create_bedrock_agent"
    /\ Declare(ReturnedResources,
               [r \in Resources |-> ReturnedDependsOn(r)],
               [r \in Resources |-> ReturnedRefs(r)])
    /\ pc' = "synth"
    /\ UNCHANGED <<status, issuedWith, runStatus, runErrors, exists, response,
                   runs, frontend>>
    /\ UNCHANGED <<chatVars, sessionVars, streamVars>>

\* app.py lines 20-26: the front-end stack takes the two tokens; app.synth()
\* hands the template to the deployment engine
Synth ==
    /\ pc = "synth"
    /\ pc' = "deploy"
    /\ runStatus' = "running"
    /\ runs' = 1
    /\ UNCHANGED <<declared, deps, refs, status, issuedWith, runErrors, exists,
                   response, frontend>>
    /\ UNCHANGED <<chatVars, sessionVars, streamVars>>

(***************************************************************************)
(* Deployment of the template                                              *)
(***************************************************************************)
\* what a resource waits for before its create call is issued
WaitsFor(r) == deps[r]

\* a role, policy, function or collection is created by the engine itself,
\* in one step; the failures followed here are those of the remote calls
CreateNative(r) ==
    /\ pc = "deploy" /\ runStatus = "running"
    /\ r \in declared \cap Natives
    /\ status[r] = "pending"
    /\ \A d \in WaitsFor(r) : status[d] = "complete"
    /\ status' = [status EXCEPT ![r] = "complete"]
    /\ issuedWith' = [issuedWith EXCEPT ![r] = refs[r] \cap Completed]
    /\ UNCHANGED <<pc, declared, deps, refs, runStatus, runErrors, exists,
                   response, runs, frontend>>
    /\ UNCHANGED <<chatVars, sessionVars, streamVars>>

\* on_create: the AwsSdkCall is issued with the response fields it references
Start(r) ==
    /\ pc = "deploy" /\ runStatus = "running"
    /\ r \in declared \cap Calls
    /\ status[r] = "pending"
    /\ \A d \in WaitsFor(r) : status[d] = "complete"
    /\ status' = [status EXCEPT ![r] = "in_progress"]
    /\ issuedWith' = [issuedWith EXCEPT ![r] = refs[r] \cap Completed]
    /\ UNCHANGED <<pc, declared, deps, refs, runStatus, runErrors, exists,
                   response, runs, frontend>>
    /\ UNCHANGED <<chatVars, sessionVars, streamVars>>

\* the call returns its response (physical_resource_id, output_paths)
Succeed(r) ==
    /\ pc = "deploy"
    /\ r \in declared \cap Calls
    /\ status[r] = "in_progress"
    /\ r \in exists => Tolerates(r)
    /\ status' = [status EXCEPT ![r] = "complete"]
    /\ response' = [response EXCEPT
                       ![r] = IF r \in exists THEN "already_exists" ELSE "ok"]
    /\ exists' = exists \cup ({r} \cap Named)
    /\ UNCHANGED <<pc, declared, deps, refs, issuedWith, runStatus, runErrors,
                   runs, frontend>>
    /\ UNCHANGED <<chatVars, sessionVars, streamVars>>

\* the errors a call can return: the service refuses a second entity of the
\* same name, and any call can fail for another reason
ErrorResponses(r) ==
    IF r \in exists /\ ~Tolerates(r) THEN {"already_exists", "error"}
    ELSE {"error"}

\* the call returns an error: the resource fails and the run with it
Fail(r) ==
    /\ pc = "deploy"
    /\ r \in declared \cap Calls
    /\ status[r] = "in_progress"
    /\ status' = [status EXCEPT ![r] = "failed"]
    /\ \E resp \in ErrorResponses(r) : response' = [response EXCEPT ![r] = resp]
    /\ runStatus' = "failed"
    /\ runErrors' = runErrors \cup {r}
    /\ UNCHANGED <<pc, declared, deps, refs, issuedWith, exists, runs, frontend>>
    /\ UNCHANGED <<chatVars, sessionVars, streamVars>>

\* every declared resource is complete: the stack outputs become available
Finish ==
    /\ pc = "deploy" /\ runStatus = "running"
    /\ Completed = declared
    /\ runStatus' = "complete"
    /\ UNCHANGED <<pc, declared, deps, refs, status, issuedWith, runErrors,
                   exists, response, runs, frontend>>
    /\ UNCHANGED <<chatVars, sessionVars, streamVars>>

\* app.py lines 20-24: FrontendStack is deployed with the two outputs
DeployFrontend ==
    /\ pc = "deploy" /\ runStatus = "complete"
    /\ ~frontend.deployed
    /\ frontend' = [deployed |-> TRUE,
                    bedrock_agent_id |-> status[BedrockAgent] = "complete",
                    bedrock_agent_alias |-> status[BedrockAgentAlias] = "complete"]
    /\ UNCHANGED <<pc, declared, deps, refs, status, issuedWith, runStatus,
                   runErrors, exists, response, runs>>
    /\ UNCHANGED <<chatVars, sessionVars, streamVars>>

\* calls whose custom resource declares on_delete, and the index handler
Deletable == {BedrockAgent, BedrockKowledgeBase, IndexOpenSearch}

\* a failed run is rolled back (the delete calls may fail and leave the
\* entity behind) and the stack is applied again
RollbackAndReapply ==
    /\ pc = "deploy" /\ runStatus = "failed"
    /\ InFlight = {}
    /\ runs < MaxRuns
    /\ \E kept \in SUBSET (Completed \cap Deletable \cap Named) :
          exists' = (exists \ (Completed \cap Named)) \cup kept
    /\ status' = Pending
    /\ issuedWith' = NoneIssued
    /\ runStatus' = "running"
    /\ runErrors' = {}
    /\ response' = NoResponse
    /\ runs' = runs + 1
    /\ UNCHANGED <<pc, declared, deps, refs, frontend>>
    /\ UNCHANGED <<chatVars, sessionVars, streamVars>>

\* applying the unchanged template to a complete stack issues no call: the
\* resources declare on_create only and their parameters are the same
ReapplyUnchanged ==
    /\ pc = "deploy" /\ runStatus = "complete"
    /\ runs < MaxRuns
    /\ runs' = runs + 1
    /\ UNCHANGED <<pc, declared, deps, refs, status, issuedWith, runStatus,
                   runErrors, exists, response, frontend>>
    /\ UNCHANGED <<chatVars, sessionVars, streamVars>>

Deploy ==
    \/ \E r \in Resources : CreateNative(r)
    \/ \E r \in Resources : Start(r)
    \/ \E r \in Resources : Succeed(r)
    \/ \E r \in Resources : Fail(r)
    \/ Finish
    \/ DeployFrontend
    \/ RollbackAndReapply
    \/ ReapplyUnchanged

Next ==
    \/ check_bedrock_availability
    \/ create_custom_resource_role
    \/ create_bedrock_agent_role
    \/ create_bedrock_kb_role
    \/ create_bedrock_agent
    \/ Synth
    \/ Deploy

Spec == Init /\ [][Next]_vars

\* the template of lines 296-757 handed to the deployment engine
InitDeclared ==
    /\ pc = "deploy"
    /\ declared = DeclaredResources
    /\ deps = [r \in Resources |-> DeclaredDependsOn(r)]
    /\ refs = [r \in Resources |-> DeclaredRefs(r)]
    /\ status = Pending
    /\ issuedWith = NoneIssued
    /\ runStatus = "running"
    /\ runErrors = {}
    /\ exists = {}
    /\ response = NoResponse
    /\ runs = 1
    /\ frontend = NoFrontend
    /\ ChatUnused /\ SessionUnused /\ StreamUnused

SpecDeclared == InitDeclared /\ [][Deploy]_vars

(***************************************************************************)
(* Properties                                                              *)
(***************************************************************************)
Issued(r) == status[r] # "pending"
Returned(r) == status[r] = "complete"

\* C1: the alias call is never issued before the prepare call on the agent
\* has returned.
C1_AliasAfterPrepare ==
    Issued(BedrockAgentAlias) => Returned(BedrockPrepareAgent)

C3_ActionGroupsBetweenAgentAndPrepare ==
    /\ Returned(BedrockAgentAlias) =>
          /\ Returned(BedrockAgentActionGroup1)
          /\ Returned(BedrockAgentActionGroup2)
          /\ Returned(BedrockPrepareAgent)
    /\ Issued(BedrockPrepareAgent) =>
          /\ Returned(BedrockAgentActionGroup1)
          /\ Returned(BedrockAgentActionGroup2)
    /\ \A g \in {BedrockAgentActionGroup1, BedrockAgentActionGroup2} :
          Issued(g) => Returned(BedrockAgent)

LaterSteps(r) ==
    CASE r = IndexOpenSearch ->
            Calls \ {IndexOpenSearch}
      [] r = BedrockKowledgeBase ->
            Calls \ {IndexOpenSearch, BedrockKowledgeBase}
      [] r = BedrockDataSource ->
            {BedrockIngestion, BedrockAssociateKb, BedrockAgentActionGroup1,
             BedrockAgentActionGroup2, BedrockPrepareAgent, BedrockAgentAlias}
      [] r = BedrockAgent ->
            {BedrockAssociateKb, BedrockAgentActionGroup1,
             BedrockAgentActionGroup2, BedrockPrepareAgent, BedrockAgentAlias}
      [] r = BedrockAssociateKb ->
            {BedrockAgentActionGroup1, BedrockAgentActionGroup2,
             BedrockPrepareAgent, BedrockAgentAlias}
      [] r \in {BedrockAgentActionGroup1, BedrockAgentActionGroup2} ->
            {BedrockPrepareAgent, BedrockAgentAlias}
      [] r = BedrockPrepareAgent -> {BedrockAgentAlias}
      [] OTHER -> {}

FailureStops ==
    \A r \in Calls :
       status[r] = "failed" =>
          /\ runStatus = "failed"
          /\ r \in runErrors
          /\ \A d \in LaterSteps(r) : ~Issued(d)

NotRetried ==
    \A r \in Calls :
       (status[r] = "failed" /\ runs' = runs) => status'[r] = "failed"

C7_TopDownPhases ==
    /\ Issued(IndexOpenSearch) =>
          \A role \in {CustomResourceRole, BedrockAgentRole, BedrockKbRole} :
             Returned(role)
    /\ Issued(BedrockKowledgeBase) => Returned(IndexOpenSearch)
    /\ Issued(BedrockAgent) => Returned(BedrockKowledgeBase)
    /\ Issued(BedrockAgentAlias) => Returned(BedrockAgent)
    /\ frontend.deployed =>
          /\ frontend.bedrock_agent_id /\ frontend.bedrock_agent_alias
          /\ Returned(BedrockAgentAlias)

\* C8: the associate call is issued only after the agent, knowledge-base and
\* data-source calls have completed, it completes before either action group
\* and before prepare, and no alias is published for an agent that is not
\* associated with the knowledge base.
C8_AssociateBeforeAlias ==
    /\ Issued(BedrockAssociateKb) =>
          /\ Returned(BedrockAgent)
          /\ Returned(BedrockKowledgeBase)
          /\ Returned(BedrockDataSource)
    /\ \A g \in {BedrockAgentActionGroup1, BedrockAgentActionGroup2,
                 BedrockPrepareAgent} :
          Issued(g) => Returned(BedrockAssociateKb)
    /\ Returned(BedrockAgentAlias) => Returned(BedrockAssociateKb)

\* C9: for each action function the invoke permission scoped to the agent id
\* is created after the agent call has returned the id and before the alias
\* is published.
C9_PermissionBeforeAlias ==
    /\ \A p \in {DeviceMetricsPermission, DeviceActionPermission} :
          Returned(p) => BedrockAgent \in issuedWith[p]
    /\ Returned(BedrockAgentAlias) =>
          /\ Returned(DeviceMetricsPermission)
          /\ Returned(DeviceActionPermission)

IssuedAfter(r) ==
    CASE r = BedrockKowledgeBase -> {IndexOpenSearch}
      [] r = BedrockDataSource -> {IndexOpenSearch, BedrockKowledgeBase}
      [] r = BedrockIngestion ->
            {IndexOpenSearch, BedrockKowledgeBase, BedrockDataSource}
      [] r = BedrockAssociateKb ->
            {IndexOpenSearch, BedrockKowledgeBase, BedrockDataSource,
             BedrockAgent}
      [] r \in {BedrockAgentActionGroup1, BedrockAgentActionGroup2} ->
            {IndexOpenSearch, BedrockKowledgeBase, BedrockDataSource,
             BedrockAgent, BedrockAssociateKb}
      [] r = BedrockPrepareAgent ->
            {IndexOpenSearch, BedrockKowledgeBase, BedrockDataSource,
             BedrockAgent, BedrockAssociateKb, BedrockAgentActionGroup1,
             BedrockAgentActionGroup2}
      [] r = BedrockAgentAlias -> {BedrockAgent}
      [] OTHER -> {}

string_digits == {"0", "1", "2", "3", "4", "5", "6", "7", "8", "9"}
string_ascii_lowercase ==
    {"a", "b", "c", "d", "e", "f", "g", "h", "i", "j", "k", "l", "m",
     "n", "o", "p", "q", "r", "s", "t", "u", "v", "w", "x", "y", "z"}

\* the outcomes of random.choice the model draws from
Digits == {"0", "9"}
Letters == {"a", "z"}

session_generator_NoDash(digits, chars) ==
    <<digits[1], chars[1]>> \o SubSeq(digits, 2, 3)
        \o <<chars[2], digits[4], chars[3]>>

\* f"{digits[0]}{chars[0]}{digits[1:3]}{chars[1]}-{digits[3]}{chars[2]}"
session_generator(digits, chars) ==
    <<digits[1], chars[1]>> \o SubSeq(digits, 2, 3)
        \o <<chars[2], "-", digits[4], chars[3]>>

\* one call of session_generator: four digits and three letters are drawn
\* and the pattern is returned; nothing the function reads remembers the
\* ids returned before
CallSessionGenerator ==
    \E digits \in [1..4 -> Digits], chars \in [1..3 -> Letters] :
        /\ draw' = [digits |-> digits, chars |-> chars]
        /\ pattern' = session_generator(digits, chars)
        /\ previous' = pattern
    /\ UNCHANGED <<pc, declared, deps, refs, status, issuedWith, runStatus,
                   runErrors, exists, response, runs, frontend, chatVars,
                   streamVars>>

SpecSession == Init /\ [][CallSessionGenerator]_vars

MatchesPattern(id) ==
    /\ Len(id) >= 8
    /\ id[1] \in string_digits
    /\ id[2] \in string_ascii_lowercase
    /\ id[3] \in string_digits
    /\ id[4] \in string_digits
    /\ id[5] \in string_ascii_lowercase
    /\ id[6] = "-"
    /\ id[7] \in string_digits
    /\ id[8] \in string_ascii_lowercase

\* C11 as stated: for every outcome of the random choices the returned
\* string has 7 characters and matches digit, letter, digit, digit, letter,
\* dash, digit, letter.
C11_SevenCharacters ==
    pattern # <<>> => Len(pattern) = 7 /\ MatchesPattern(pattern)

\* C11 amended: for every outcome of the random choices the returned string
\* has 8 characters (the pattern names eight positions) and matches digit,
\* letter, digit, digit, letter, dash, digit, letter, built from the draw
\* alone, so an id returned before can be returned again.
C11_EightCharacters ==
    pattern # <<>> =>
        /\ Len(pattern) = 8
        /\ MatchesPattern(pattern)
        /\ pattern[1] = draw.digits[1] /\ pattern[2] = draw.chars[1]
        /\ pattern[3] = draw.digits[2] /\ pattern[4] = draw.digits[3]
        /\ pattern[5] = draw.chars[2]
        /\ pattern[7] = draw.digits[4] /\ pattern[8] = draw.chars[3]

\* two calls in a row returned the same 8-character id
C11_Witness ==
    pattern # <<>> /\ previous = pattern /\ Len(pattern) = 8

(***************************************************************************)
(* Response streams (home.py lines 121-165, 256-260)                       *)
(* A text is the sequence of its pieces; bytes are sequences of octets.    *)
(***************************************************************************)
MaxStream == 3

\* an event of response["completion"]: the keys process_stream looks at, and
\* whether reading the event from the stream raises
Chunk(bytes) ==
    [hasChunk |-> TRUE, bytes |-> bytes, hasTrace |-> FALSE,
     lookupInput |-> FALSE, references |-> <<>>, raises |-> FALSE]
Trace(lookupInput, references) ==
    [hasChunk |-> FALSE, bytes |-> <<>>, hasTrace |-> TRUE,
     lookupInput |-> lookupInput, references |-> references, raises |-> FALSE]
StreamError ==
    [hasChunk |-> FALSE, bytes |-> <<>>, hasTrace |-> FALSE,
     lookupInput |-> FALSE, references |-> <<>>, raises |-> TRUE]

Reference == [text |-> "manual", uri |-> "s3://kb/manual.pdf"]

ChunkEvents == {Chunk(<<>>), Chunk(<<97>>), Chunk(<<98>>)}
TraceEvents ==
    {Trace(TRUE, <<>>), Trace(FALSE, <<>>), Trace(FALSE, <<Reference>>)}

\* bytes.decode("utf-8") on the octets the model uses
decode(bytes) ==
    [i \in 1..Len(bytes) |->
        IF bytes[i] = 97 THEN "a" ELSE IF bytes[i] = 98 THEN "b" ELSE "?"]

\* lines 121-132: the return sits inside the loop, so the first reference
\* is formatted and the others are dropped
format_retrieved_references(references) ==
    <<"Reference Information:\n", "Content: ", references[1].text, "\n",
      "S3 URI: ", references[1].uri, "\n">>

Returns(text) == [none |-> FALSE, text |-> text]
ReturnsNone == [none |-> TRUE, text |-> <<>>]

\* lines 134-165: references of a trace event are returned as text, a chunk
\* is decoded, and every other event falls off the end of the function
process_stream(stream) ==
    IF stream.hasTrace /\ stream.references # <<>>
    THEN Returns(format_retrieved_references(stream.references))
    ELSE IF stream.hasChunk
         THEN Returns(decode(stream.bytes))
         ELSE ReturnsNone

answer_loop_FirstOnly(stream, answer) ==
    IF stream = <<>> \/ Head(stream).raises
    THEN [raised |-> stream # <<>>, answer |-> answer]
    ELSE [raised |-> FALSE, answer |-> decode(Head(stream).bytes)]

\* lines 257-259: answer = ""; for stream in results: answer +=
\* process_stream(stream).  str += None raises TypeError.
RECURSIVE answer_loop(_, _)
answer_loop(stream, answer) ==
    IF stream = <<>>
    THEN [raised |-> FALSE, answer |-> answer]
    ELSE IF Head(stream).raises
         THEN [raised |-> TRUE, answer |-> answer]
         ELSE LET text == process_stream(Head(stream))
              IN  IF text.none
                  THEN [raised |-> TRUE, answer |-> answer]
                  ELSE answer_loop(Tail(stream), answer \o text.text)

Streams(events, n) == UNION {[1..k -> events] : k \in 1..n}

InitStream ==
    /\ NotSynthesised /\ ChatUnused /\ SessionUnused
    /\ results \in Streams(ChunkEvents \cup TraceEvents, MaxStream)
    /\ accumulated = NotAccumulated

AccumulateAnswer ==
    /\ accumulated = NotAccumulated
    /\ accumulated' = answer_loop(results, <<>>)
    /\ UNCHANGED <<pc, declared, deps, refs, status, issuedWith, runStatus,
                   runErrors, exists, response, runs, frontend, chatVars,
                   sessionVars, results>>

SpecStream == InitStream /\ [][AccumulateAnswer]_vars

(***************************************************************************)
(* The chat front end (home.py)                                            *)
(***************************************************************************)
MaxConversation == 3
MaxChunks == 2
MaxQueued == 1

Question == <<"q">>
Username == <<"alice">>

\* the ids session_generator returns in the chat model
SessionIds ==
    {session_generator(<<"0", "0", "0", "0">>, <<"a", "a", "a">>),
     session_generator(<<"9", "9", "9", "9">>, <<"z", "z", "z">>)}

ConfigError ==
    "BEDROCK_AGENT_ALIAS or BEDROCK_AGENT_ID environment variables are not set."
ConfigFileError == "Configuration file not found."
AuthenticatorError == "An error occurred during authentication setup."
TryAgainLater == "An error occurred. Please try again later."
SavedMessage == "Conversation saved successfully!"
ThanksMessage == "Thank you for your feedback!"
AgentErrorLog == "Exception when calling Bedrock Agent"
Errors == {ConfigError, ConfigFileError, AuthenticatorError, TryAgainLater}

Envs ==
    [BEDROCK_AGENT_ID : BOOLEAN, BEDROCK_AGENT_ALIAS : BOOLEAN,
     table_name : BOOLEAN, config_yaml : BOOLEAN, authenticator : BOOLEAN]

\* lines 66-102: the checks made before the session state is initialised
Startup ==
    /\ app = "startup"
    /\ IF ~env.BEDROCK_AGENT_ALIAS \/ ~env.BEDROCK_AGENT_ID
       THEN app' = "stopped" /\ shown' = {ConfigError}
       ELSE IF ~env.config_yaml
            THEN app' = "stopped" /\ shown' = {ConfigFileError}
            ELSE IF ~env.authenticator
                 THEN app' = "stopped" /\ shown' = {AuthenticatorError}
                 ELSE app' = "ready" /\ shown' = {}
    /\ UNCHANGED <<env, auth, session_state, handler, logged, invoked,
                   lastInvoke, attempts, lastSave, atEntry, queued, last>>
    /\ UNCHANGED <<provisioningVars, sessionVars, streamVars>>

\* authenticator.login / authenticator.logout (lines 281-284, 346-353)
Login(ok) ==
    /\ app = "ready" /\ handler = "idle" /\ auth # "True"
    /\ auth' = IF ok THEN "True" ELSE "False"
    /\ UNCHANGED <<env, app, session_state, handler, shown, logged, invoked,
                   lastInvoke, attempts, lastSave, atEntry, queued, last>>
    /\ UNCHANGED <<provisioningVars, sessionVars, streamVars>>

Logout ==
    /\ app = "ready" /\ handler = "idle" /\ auth = "True"
    /\ queued = 0
    /\ auth' = "None"
    /\ UNCHANGED <<env, app, session_state, handler, shown, logged, invoked,
                   lastInvoke, attempts, lastSave, atEntry, queued, last>>
    /\ UNCHANGED <<provisioningVars, sessionVars, streamVars>>

Rendered_Unauthenticated ==
    app = "ready" /\ handler = "idle" /\ queued = 0

\* the widgets of the authenticated branch of main (lines 283-344) are on
\* the page and no handler is running
Rendered ==
    app = "ready" /\ auth = "True" /\ handler = "idle" /\ queued = 0

Entry(role, text) == [role |-> role, text |-> text]

\* what one handler leaves behind besides the session state: the outcome of
\* its calls, the messages it showed, what it logged, and the item it put
Handled(ss, op, inv, stream, put, messages, logs, n, item) ==
    /\ session_state' = ss
    /\ last' = [op |-> op, invoke |-> inv, completion |-> stream,
                put_item |-> put]
    /\ shown' = messages
    /\ logged' = logs
    /\ attempts' = n
    /\ lastSave' = item
    /\ UNCHANGED <<env, app, auth>>
    /\ UNCHANGED <<provisioningVars, sessionVars, streamVars>>

\* a handler that neither calls the agent nor saves
Plain(ss, op) ==
    /\ Handled(ss, op, "none", <<>>, "none", {}, {}, 0, NoItem)
    /\ atEntry' = ss
    /\ lastInvoke' = NoInvoke
    /\ UNCHANGED <<handler, invoked, queued>>

\* st.text_area(key="user_input") (line 321)
TypeInput ==
    /\ Rendered
    /\ session_state.user_input = <<>>
    /\ Plain([session_state EXCEPT !.user_input = Question],
          "text_area")

\* lines 355-357
clear_input ==
    /\ Rendered
    /\ Plain([session_state EXCEPT !.user_input = <<>>],
          "clear_input")

\* sidebar "Clear History" (lines 295-297): feedback is left as it is
SidebarClearHistory ==
    /\ Rendered
    /\ \E id \in SessionIds :
        Plain([session_state EXCEPT !.conversation = <<>>,
                                    !.session_id = id],
              "sidebar_clear_history")

\* options "Clear History" (lines 329-333)
OptionsClearHistory ==
    /\ Rendered
    /\ \E id \in SessionIds :
        Plain([session_state EXCEPT !.conversation = <<>>,
                                    !.session_id = id, !.feedback = {}],
              "options_clear_history")

\* table.put_item (line 189): what the call can do
PutOutcomes ==
    {"ok", "AccessDeniedException", "ResourceNotFoundException", "Exception"}

Item_NoSession(username, session_id, conversation, feedback, hasFeedback) ==
    [username |-> username, session_id |-> None,
     conversation |-> conversation, feedback |-> feedback,
     hasFeedback |-> hasFeedback]

\* lines 179-187; id is a fresh uuid and timestamp the time of the call
Item(username, session_id, conversation, feedback, hasFeedback) ==
    [username |-> username, session_id |-> session_id,
     conversation |-> conversation, feedback |-> feedback,
     hasFeedback |-> hasFeedback]

save_to_dynamodb_raises_Unexpected(outcome) ==
    outcome \notin {"ok", "AccessDeniedException"}

\* lines 188-201: ClientError and Exception are both caught, True is returned
save_to_dynamodb_raises(outcome) == FALSE

save_to_dynamodb_shown(outcome) ==
    IF outcome = "ok" THEN {SavedMessage} ELSE {}

save_to_dynamodb_logged(outcome) ==
    IF outcome = "ok" THEN {}
    ELSE IF outcome = "AccessDeniedException"
         THEN {"AccessDeniedException",
               "Unable to save conversation due to permissions."}
         ELSE IF outcome = "Exception"
              THEN {"Unexpected error"}
              ELSE {"Unexpected error when saving to DynamoDB"}

\* lines 233-238; idx is the index render_chat gives the assistant entry
provide_feedback ==
    /\ Rendered
    /\ \E i \in 1..Len(session_state.conversation),
          feedback_type \in {"positive", "negative"},
          outcome \in PutOutcomes :
        /\ session_state.conversation[i].role = "assistant"
        /\ LET feedback ==
                   {f \in session_state.feedback : f.index # i - 1}
                       \cup {[index |-> i - 1, type |-> feedback_type]}
               ss == [session_state EXCEPT !.feedback = feedback]
               item == Item(Username, ss.session_id, ss.conversation,
                            feedback, TRUE)
           IN  Handled(ss, "provide_feedback", "none", <<>>, outcome,
                       IF save_to_dynamodb_raises(outcome)
                       THEN {"Traceback"}
                       ELSE save_to_dynamodb_shown(outcome)
                                \cup {ThanksMessage},
                       save_to_dynamodb_logged(outcome), 1, item)
               /\ atEntry' = ss
    /\ lastInvoke' = NoInvoke
    /\ UNCHANGED <<handler, invoked, queued>>

submit_question_NoGuard(ss) ==
    /\ atEntry' = ss
    /\ Len(ss.conversation) + 2 <= MaxConversation
    /\ invoked' = TRUE
    /\ lastInvoke' = [sessionId |-> ss.session_id, inputText |-> ss.user_input]
    /\ handler' = "idle"
    /\ Handled([ss EXCEPT !.conversation =
                              Append(@, Entry("user", ss.user_input))],
               "submit_question", "ParamValidationError", <<>>, "none",
               {TryAgainLater}, {AgentErrorLog}, 0, NoItem)

finally_Skipped(ss) == ss

\* lines 270-272: the finally clause of submit_question
finally(ss) == [ss EXCEPT !.processing = FALSE]

\* submit_question (lines 240-272) up to the call of invoke_agent, entered
\* with session state ss.  boto3 rejects sessionId=None before anything is
\* sent (ParamValidationError), and the handler ends in its except branch.
submit_question(ss) ==
    /\ atEntry' = ss
    /\ IF ss.user_input = <<>>
       THEN /\ Handled(ss, "submit_question", "none", <<>>, "none", {}, {},
                       0, NoItem)
            /\ lastInvoke' = NoInvoke
            /\ UNCHANGED <<handler, invoked>>
       ELSE /\ Len(ss.conversation) + 2 <= MaxConversation
            /\ invoked' = TRUE
            /\ lastInvoke' = [sessionId |-> ss.session_id,
                              inputText |-> ss.user_input]
            /\ LET started ==
                       [ss EXCEPT !.processing = TRUE,
                                  !.conversation =
                                      Append(@, Entry("user", ss.user_input))]
               IN  IF ss.session_id = None
                   THEN /\ handler' = "idle"
                        /\ Handled(finally(started),
                                   "submit_question", "ParamValidationError",
                                   <<>>, "none", {TryAgainLater},
                                   {AgentErrorLog}, 0, NoItem)
                   ELSE /\ handler' = "invoking"
                        /\ Handled(started, "submit_question", "in_flight",
                                   <<>>, "none", {}, {}, 0, NoItem)

\* st.button("Submit", on_click=submit_question) (line 324)
Submit ==
    /\ Rendered
    /\ submit_question(session_state)
    /\ UNCHANGED queued

\* invoke_agent is called without enableTrace (lines 249-255), so the
\* stream carries chunk events; the call can raise, and so can reading the
\* stream.  The chat model answers in chunks of one text; SpecStream runs
\* the answer loop over every kind of event.
ChatEvents == {Chunk(<<97>>), StreamError}

Responses ==
    {[raised |-> TRUE, completion |-> <<>>]}
        \cup {[raised |-> FALSE, completion |-> stream] :
                 stream \in Streams(ChatEvents, MaxChunks)}

\* the service failed the call or broke the stream off
Fails(resp) ==
    resp.raised \/ \E i \in 1..Len(resp.completion) : resp.completion[i].raises

read_SwallowsErrors(resp) == [raised |-> FALSE, answer |-> <<>>]

\* lines 249-259 on a response: the call raises, or the loop runs
read(resp) ==
    IF resp.raised THEN [raised |-> TRUE, answer |-> <<>>]
    ELSE answer_loop(resp.completion, <<>>)

\* submit_question from the return of invoke_agent to the end (lines 256-272)
InvokeReturn ==
    /\ handler = "invoking"
    /\ \E resp \in Responses, outcome \in PutOutcomes :
        LET loop == read(resp)
            inv == IF Fails(resp) THEN "raised" ELSE "returned"
            answered ==
                [session_state EXCEPT
                    !.conversation = Append(@, Entry("assistant", loop.answer))]
            item == Item(Username, session_state.session_id,
                         answered.conversation, {}, FALSE)
        IN  IF loop.raised
            THEN Handled(finally(session_state),
                         "submit_question", inv, resp.completion, "none",
                         {TryAgainLater}, {AgentErrorLog}, 0, NoItem)
            ELSE IF save_to_dynamodb_raises(outcome)
                 THEN Handled(finally(answered), "submit_question", inv,
                              resp.completion, outcome, {TryAgainLater},
                              save_to_dynamodb_logged(outcome)
                                  \cup {AgentErrorLog}, 1, item)
                 ELSE Handled(finally([answered EXCEPT !.user_input = <<>>]),
                              "submit_question", inv, resp.completion,
                              outcome, save_to_dynamodb_shown(outcome),
                              save_to_dynamodb_logged(outcome), 1, item)
    /\ handler' = "idle"
    /\ UNCHANGED <<invoked, lastInvoke, queued, atEntry>>

\* the Submit button is created without disabled= (line 324) and nothing
\* reads st.session_state.processing
SubmitDisabled == FALSE

\* a click on Submit while the handler waits for invoke_agent
ClickWhileProcessing ==
    /\ app = "ready" /\ auth = "True" /\ handler = "invoking"
    /\ ~SubmitDisabled
    /\ queued < MaxQueued
    /\ queued' = queued + 1
    /\ UNCHANGED <<env, app, auth, session_state, handler, shown, logged,
                   invoked, lastInvoke, attempts, lastSave, atEntry, last>>
    /\ UNCHANGED <<provisioningVars, sessionVars, streamVars>>

\* the script run of that click starts when the running handler has ended;
\* the click carries the text the browser held, which is the text submitted
\* before or the value the script has set since
QueuedSubmit ==
    /\ app = "ready" /\ auth = "True" /\ handler = "idle"
    /\ queued > 0
    /\ queued' = queued - 1
    /\ \E text \in {session_state.user_input, Question} :
        submit_question([session_state EXCEPT !.user_input = text])

InitChat ==
    /\ NotSynthesised /\ SessionUnused /\ StreamUnused
    /\ env \in Envs
    /\ ChatNotStarted

NextChat ==
    \/ Startup
    \/ \E ok \in BOOLEAN : Login(ok)
    \/ Logout
    \/ TypeInput
    \/ clear_input
    \/ SidebarClearHistory
    \/ OptionsClearHistory
    \/ Submit
    \/ InvokeReturn
    \/ ClickWhileProcessing
    \/ QueuedSubmit
    \/ provide_feedback

SpecChat == InitChat /\ [][NextChat]_vars

(***************************************************************************)
(* Properties of the chat front end                                        *)
(***************************************************************************)
\* the texts of the chunk events of a stream, decoded and joined in order
RECURSIVE ChunkText(_)
ChunkText(stream) ==
    IF stream = <<>> THEN <<>>
    ELSE (IF Head(stream).hasChunk THEN decode(Head(stream).bytes) ELSE <<>>)
             \o ChunkText(Tail(stream))

\* the last handler was submit_question and it ran to its end
TurnEnded == last.op = "submit_question" /\ handler = "idle"
\* ... with a response from the agent that was read to its end
TurnCompleted == TurnEnded /\ last.invoke = "returned"
\* ... with a call of invoke_agent that raised, or a stream that did
TurnFailed == TurnEnded /\ last.invoke \in {"raised", "ParamValidationError"}

Usable == app = "ready" /\ handler = "idle" /\ ~session_state.processing

\* C12: a failure of table.put_item during submit_question (access denied,
\* missing table, any other error) does not escape save_to_dynamodb: the
\* handler goes on to clear the input, the user entry and the assistant
\* entry of the turn stay at the end of the conversation, no error message
\* is shown, and the session can take a further submission.
C12_PersistenceFailureNeverBlocks ==
    (TurnEnded /\ last.put_item \notin {"none", "ok"}) =>
        /\ session_state.conversation =
               atEntry.conversation
                   \o <<Entry("user", atEntry.user_input),
                        Entry("assistant", ChunkText(last.completion))>>
        /\ session_state.user_input = <<>>
        /\ shown \cap Errors = {}
        /\ "Traceback" \notin shown
        /\ logged # {}
        /\ Usable

\* a turn whose save failed because the table is missing, after an earlier
\* entry of the conversation
C12_Witness ==
    /\ TurnEnded /\ last.put_item = "ResourceNotFoundException"
    /\ Len(session_state.conversation) = 3
    /\ Usable

\* C13: a non-empty input answered by a non-empty stream grows the
\* conversation by exactly the user entry and then the assistant entry, at
\* the end, earlier entries unchanged.
C13_TurnAppendsUserThenAssistant ==
    (TurnCompleted /\ ChunkText(last.completion) # <<>>) =>
        /\ atEntry.user_input # <<>>
        /\ session_state.conversation =
               atEntry.conversation
                   \o <<Entry("user", atEntry.user_input),
                        Entry("assistant", ChunkText(last.completion))>>

\* a two-chunk answer appended after an earlier entry
C13_Witness ==
    /\ TurnCompleted
    /\ Len(last.completion) = 2
    /\ atEntry.conversation # <<>>
    /\ Len(session_state.conversation) = Len(atEntry.conversation) + 2

C15_MissingConfigurationHalts ==
    (/\ app # "startup"
     /\ \/ ~env.BEDROCK_AGENT_ID
        \/ ~env.BEDROCK_AGENT_ALIAS
        \/ ~env.table_name) =>
        /\ app = "stopped"
        /\ shown \cap Errors # {}
        /\ ~invoked

\* C16: at most one invocation is in flight, and while processing is True
\* the Submit button is disabled, so no click is accepted that would start
\* a second submit_question.
C16_SubmissionDisabledWhileProcessing ==
    session_state.processing => SubmitDisabled /\ queued = 0

C18_AnswerIsChunkText ==
    accumulated # NotAccumulated =>
        ~accumulated.raised /\ accumulated.answer = ChunkText(results)

\* C19: at every call of invoke_agent and every put_item attempt the
\* session id is one session_generator returned, never None.
C19_SessionIdGenerated ==
    /\ (last.op = "submit_question" /\ last.invoke # "none") =>
           lastInvoke.sessionId \in SessionIds
    /\ attempts > 0 => lastSave.session_id \in SessionIds

(***************************************************************************)
(* Termination of a provisioning run                                       *)
(***************************************************************************)
\* the constructor runs to its end, the engine takes every step that is
\* open to it, and every call in flight is answered by its service
Progress ==
    /\ WF_vars(check_bedrock_availability)
    /\ WF_vars(create_custom_resource_role)
    /\ WF_vars(create_bedrock_agent_role)
    /\ WF_vars(create_bedrock_kb_role)
    /\ WF_vars(create_bedrock_agent)
    /\ WF_vars(Synth)
    /\ WF_vars(\E r \in Resources : CreateNative(r))
    /\ WF_vars(\E r \in Resources : Start(r))
    /\ \A r \in Calls : WF_vars(Succeed(r) \/ Fail(r))
    /\ WF_vars(Finish)

SpecLive == Spec /\ Progress

SpecDeclaredLive == SpecDeclared /\ Progress

AliasPublished ==
    /\ runStatus = "complete"
    /\ status[BedrockAgent] = "complete"
    /\ status[BedrockAgentAlias] = "complete"

AssistantPositions(conversation) ==
    {i \in 1..Len(conversation) : conversation[i].role = "assistant"}

\* every key of a feedback dict is the index render_chat gives an assistant
\* entry of the conversation
FeedbackFits(feedback, conversation) ==
    \A f \in feedback : f.index + 1 \in AssistantPositions(conversation)

\* C21: whenever no handler is running the conversation has even length and
\* alternates a user entry and its assistant entry, starting with a user
\* entry.
C21_WellFormedTurnLog ==
    handler = "idle" =>
        /\ Len(session_state.conversation) % 2 = 0
        /\ \A i \in 1..Len(session_state.conversation) :
              session_state.conversation[i].role =
                  IF i % 2 = 1 THEN "user" ELSE "assistant"

\* C22: every key of st.session_state.feedback is the index of an assistant
\* entry of the current conversation, after either Clear History the
\* feedback is empty, and no item put to the table carries feedback for an
\* entry that is not in its conversation.
C22_FeedbackFitsConversation ==
    /\ FeedbackFits(session_state.feedback, session_state.conversation)
    /\ last.op \in {"sidebar_clear_history", "options_clear_history"} =>
           session_state.feedback = {}
    /\ lastSave.hasFeedback =>
           FeedbackFits(lastSave.feedback, lastSave.conversation)

\* C23: processing is True only while submit_question is running, and every
\* way out of submit_question (a completed turn, a failed invocation, a
\* failed save) leaves it False.
C23_ProcessingOnlyWhileSubmitting ==
    /\ session_state.processing =>
           handler = "invoking" /\ last.op = "submit_question"
    /\ TurnEnded => ~session_state.processing

\* a turn that ended with a failed save after one that ended with a failed
\* invocation
C23_Witness ==
    /\ TurnCompleted /\ last.put_item = "AccessDeniedException"
    /\ Len(session_state.conversation) = 3
    /\ ~session_state.processing

\* C24: submit_question entered with an empty user_input calls neither
\* invoke_agent nor put_item and leaves conversation, session_id, feedback,
\* processing and user_input as they were.
C24_EmptyInputIsNoOp ==
    (TurnEnded /\ atEntry.user_input = <<>>) =>
        /\ session_state = atEntry
        /\ last.invoke = "none" /\ lastInvoke = NoInvoke
        /\ attempts = 0 /\ lastSave = NoItem /\ last.put_item = "none"
        /\ shown = {} /\ logged = {}

\* Submit clicked on an empty box in a session that holds a conversation
\* and feedback; the agent was called for the earlier turn only
C24_Witness ==
    /\ TurnEnded /\ atEntry.user_input = <<>>
    /\ session_state.conversation # <<>>
    /\ session_state.feedback # {}
    /\ lastInvoke = NoInvoke

\* what a call of invoke_agent or of put_item changes
AgentAndTable == <<invoked, lastInvoke, attempts, lastSave>>

C26_IngestionBeforeAlias ==
    /\ Issued(BedrockPrepareAgent) => Issued(BedrockIngestion)
    /\ Returned(BedrockAgentAlias) => Issued(BedrockIngestion)
    /\ frontend.bedrock_agent_alias => Issued(BedrockIngestion)

====
